---- MODULE Spec2Model ----
(***************************************************************************)
(* News pipeline of the scrap repository: collect news per keyword,        *)
(* summarise them with a language model, post the summary to Slack.        *)
(*                                                                         *)
(*   src/main.py                      DuckDuckGo search, date filter,      *)
(*                                    HTTP LLM endpoint, Block Kit post    *)
(*   src/weekly_news/weekly_news.py   Google News RSS, URL dedup, cap,     *)
(*                                    Gemini fallback chain, plain post    *)
(*                                                                         *)
(* Text values (urls, titles, summaries, dates) are sequences; the empty   *)
(* string is the empty sequence <<>>.                                      *)
(***************************************************************************)
EXTENDS Integers, Sequences, FiniteSets, TLC

VARIABLES
    pc,            \* position of the run in main()
    env,           \* the environment values the run reads
    keywords,      \* the ordered keyword list of the run
    kwIdx,         \* index of the next keyword of the for loop
    results,       \* what the provider returned for the last keyword
    fetched,       \* history: the item list of every keyword searched so far
    all_articles,  \* main.py: search_news's all_articles
    all_items,     \* weekly_news.py: main's all_items
    seen_links,    \* weekly_news.py: main's seen_links
    news_text,     \* main.py: the text block handed to summarize_with_llm
    attempts,      \* weekly_news.py: the generate_content calls made, in order
    data,          \* main.py: the JSON body of the LLM response
    summary,       \* the summary string
    payload,       \* the JSON payload posted to the webhook
    netCalls,      \* history: every network call of the run, in order
    error          \* the exception that ended the run, "" when none

vars == <<pc, env, keywords, kwIdx, results, fetched, all_articles, all_items,
          seen_links, news_text, attempts, data, summary, payload, netCalls, error>>

----------------------------------------------------------------------------
(* Bounds of the model *)

MaxResults == 2        \* length of a provider reply in the filter specification
MaxFeedLen == 2        \* length of a feed in the dedup specification
MaxSegments == 3       \* comma-separated segments of NEWS_SEARCH_KEYWORD
MaxDedupKeywords == 2  \* keywords of a run of the dedup specification
MaxChunks == 2         \* summary lengths reach MaxChunks * chunk_size + MaxDelta
MaxDelta == 1          \* distance of a summary length from a multiple of chunk_size

(* Program constants *)

MAX_RESULTS_PER_KEYWORD == 5
DAYS_FILTER == 7
chunk_size == 2900
per_keyword == 10
VolumeCap == 25
PlainTextLimit == 39000

KEYWORDS == <<"musinsa", "29CM", "Wconcept", "zigzag", "ably", "bunjang">>

NoNewsSentinel == <<"no", "news", "collected">>
FailSentinel == <<"summary", "generation", "failed">>

NoneVal == "None"
SetVal == "set"

\* Python truthiness of an environment value: None and "" are falsy
Falsy(v) == v = NoneVal \/ v = ""

Min(a, b) == IF a <= b THEN a ELSE b

\* s[:n]
Prefix(s, n) == SubSeq(s, 1, Min(n, Len(s)))

\* one network call of the run and whether it returned without an exception
Call(kind, ok) == [kind |-> kind, ok |-> ok]

RECURSIVE Flatten(_)
Flatten(ss) == IF ss = <<>> THEN <<>> ELSE Head(ss) \o Flatten(Tail(ss))

----------------------------------------------------------------------------
(* main.py : search_news *)

\* the clock reading of datetime.now(timezone.utc), in days
Now == DAYS_FILTER + 1

cutoff == Now - DAYS_FILTER

\* r.get("date") or ""
DateStr(r) == IF r.date.kind \in {"absent", "none"}
              THEN [kind |-> "empty", day |-> 0, tz |-> ""]
              ELSE r.date

\* date_str.replace("Z", "+00:00")
ReplaceZ(d) == IF d.tz = "Z" THEN [d EXCEPT !.tz = "+00:00"] ELSE d

\* datetime.fromisoformat raises ValueError on "" and on a non-ISO string
FromIsoRaises(d) == d.kind # "iso"

ParseFallbackMutant(r) == 0

\* the except branch: pub_dt = datetime.now(timezone.utc)
ParseFallback(r) == Now

\* pub_dt of a result: the parsed date (a naive one taken as UTC), or now
PubDt(r) ==
    LET d == ReplaceZ(DateStr(r))
    IN IF FromIsoRaises(d) THEN ParseFallback(r) ELSE d.day

Article(keyword, r) ==
    [keyword |-> keyword, title |-> r.title, body |-> r.body,
     url |-> r.url, date |-> DateStr(r)]

\* the inner for loop: the articles of one keyword's results that pass the filter
RECURSIVE ArticlesFrom(_, _)
ArticlesFrom(keyword, rs) ==
    IF rs = <<>> THEN <<>>
    ELSE (IF PubDt(Head(rs)) >= cutoff THEN <<Article(keyword, Head(rs))>> ELSE <<>>)
         \o ArticlesFrom(keyword, Tail(rs))

\* build_news_text: one numbered entry per article, "" for no article
BuildNewsText(articles) ==
    [i \in 1..Len(articles) |->
        [idx |-> i, keyword |-> articles[i].keyword, title |-> articles[i].title,
         body |-> articles[i].body, url |-> articles[i].url]]

----------------------------------------------------------------------------
(* main.py : what the search provider may answer *)

Iso(day, tz) == [kind |-> "iso", day |-> day, tz |-> tz]
NoDate(kind) == [kind |-> kind, day |-> 0, tz |-> ""]

\* a date older than the window, one exactly at the cutoff, one of today
Days == {cutoff - 1, cutoff, Now}

DateValues ==
    {NoDate("absent"), NoDate("none"), NoDate("empty"), NoDate("garbage")}
    \cup {Iso(d, tz) : d \in Days, tz \in {"Z", "+00:00", "naive"}}

Reply(rs) == [raises |-> FALSE, results |-> rs]
Raise == [raises |-> TRUE, results |-> <<>>]

\* MAX_RESULTS_PER_KEYWORD results only this keyword returns, all of today
OwnBatch(k) ==
    [i \in 1..MAX_RESULTS_PER_KEYWORD |->
        [title |-> <<k, i>>, body |-> <<"body">>, url |-> <<k, i>>,
         date |-> Iso(Now, "+00:00")]]

\* results every keyword may return: the same urls, dates of every kind
SharedBatch(k) ==
    << [title |-> <<k, 1>>, body |-> <<"body">>, url |-> <<0, 1>>, date |-> Iso(Now, "Z")],
       [title |-> <<k, 2>>, body |-> <<>>, url |-> <<0, 2>>, date |-> NoDate("garbage")],
       [title |-> <<k, 3>>, body |-> <<"body">>, url |-> <<0, 3>>, date |-> Iso(cutoff - 1, "naive")],
       [title |-> <<k, 4>>, body |-> <<"body">>, url |-> <<0, 1>>, date |-> NoDate("absent")] >>

\* the answers of ddgs.news in a pipeline run: it raises, or returns a list
MainReplies(k) == {Raise, Reply(<<>>), Reply(OwnBatch(k)), Reply(SharedBatch(k))}

\* the answers of ddgs.news in the filter specification: any short list
FilterResultSet ==
    {[title |-> <<"t">>, body |-> <<"body">>, url |-> <<u>>, date |-> d] :
        u \in {1, 2}, d \in DateValues}

FilterReplies ==
    {Reply(rs) : rs \in UNION {[1..n -> FilterResultSet] : n \in 0..MaxResults}}

----------------------------------------------------------------------------
(* main.py : summarize_with_llm, the response shapes *)

\* str(data): the rendering of the whole response
Str(d) ==
    <<"str">>
    \o (IF d.isDict THEN <<"{">> ELSE <<"[">>)
    \o (IF "choices" \in d.keys
        THEN <<"choices">> \o Flatten([i \in 1..Len(d.choices) |->
                 IF d.choices[i].hasMessage
                 THEN <<"message">> \o (IF d.choices[i].hasContent
                                        THEN <<"content">> \o d.choices[i].content
                                        ELSE <<>>)
                 ELSE <<"{}">>])
        ELSE <<>>)
    \o (IF "content" \in d.keys THEN <<"content">> \o d.content ELSE <<>>)
    \o (IF "message" \in d.keys THEN <<"message">> \o d.message ELSE <<>>)
    \o (IF "text" \in d.keys THEN <<"text">> \o d.text ELSE <<>>)

\* msg.get("content", str(data)) with msg = data["choices"][0].get("message", {})
ChoiceContent(d) ==
    LET c == d.choices[1]
    IN IF c.hasMessage /\ c.hasContent THEN c.content ELSE Str(d)

ExtractSummaryMutant(d) ==
    IF ~d.isDict THEN Str(d)
    ELSE IF "content" \in d.keys THEN d.content
    ELSE IF "choices" \in d.keys /\ Len(d.choices) > 0 THEN ChoiceContent(d)
    ELSE IF "message" \in d.keys THEN d.message
    ELSE IF "text" \in d.keys THEN d.text
    ELSE Str(d)

\* lines 114-124: the summary taken from the response
ExtractSummary(d) ==
    IF ~d.isDict THEN Str(d)
    ELSE IF "choices" \in d.keys /\ Len(d.choices) > 0 THEN ChoiceContent(d)
    ELSE IF "content" \in d.keys THEN d.content
    ELSE IF "message" \in d.keys THEN d.message
    ELSE IF "text" \in d.keys THEN d.text
    ELSE Str(d)

Choice(hasMessage, hasContent, content) ==
    [hasMessage |-> hasMessage, hasContent |-> hasContent, content |-> content]

\* the choices lists of a response: empty, or one choice of every shape
ChoicesValues ==
    { <<>>,
      <<Choice(FALSE, FALSE, <<>>)>>,
      <<Choice(TRUE, FALSE, <<>>)>>,
      <<Choice(TRUE, TRUE, <<"nested">>)>>,
      <<Choice(TRUE, TRUE, <<"nested">>), Choice(TRUE, TRUE, <<"second">>)>> }

JsonText(isDict, keys, choices, text) ==
    [isDict |-> isDict, keys |-> keys, choices |-> choices,
     content |-> <<"top", "content">>, message |-> <<"top", "message">>,
     text |-> text]

Json(isDict, keys, choices) == JsonText(isDict, keys, choices, <<"top", "text">>)

\* every JSON body of the model: a non-dict, and a dict with any of the four keys
JsonValues ==
    {Json(FALSE, {}, <<>>)}
    \cup {Json(TRUE, ks, cs) :
            ks \in SUBSET {"choices", "content", "message", "text"}, cs \in ChoicesValues}

\* what requests.post and resp.json() may do
HttpOk(d) == [kind |-> "ok", data |-> d]
HttpFail(kind) == [kind |-> kind, data |-> Json(FALSE, {}, <<>>)]

\* a transport error, a non-2xx status, a body that is no JSON
LlmFailures == {HttpFail("transport"), HttpFail("status"), HttpFail("badjson")}

\* the responses of a pipeline run
MainResponses ==
    LlmFailures
    \cup {HttpOk(Json(TRUE, {"choices"}, <<Choice(TRUE, TRUE, <<"nested">>)>>)),
          HttpOk(Json(TRUE, {"text"}, <<>>))}

\* the responses of the extraction specification
ExtractResponses == LlmFailures \cup {HttpOk(d) : d \in JsonValues}

----------------------------------------------------------------------------
(* main.py : send_to_slack *)

HeaderBlocks(article_count) ==
    << [type |-> "header", text |-> <<"weekly", "competitor", "report">>],
       [type |-> "section", text |-> <<"period", "articles", "summary">>,
        count |-> article_count],
       [type |-> "divider"] >>

ChunkMutant(s, i) == SubSeq(s, i + 1, Min(i + chunk_size - 1, Len(s)))

\* summary[i : i + chunk_size]
Chunk(s, i) == SubSeq(s, i + 1, Min(i + chunk_size, Len(s)))

\* for i in range(0, len(summary), chunk_size): one section block per chunk
RECURSIVE BodyBlocksFrom(_, _)
BodyBlocksFrom(s, i) ==
    IF i >= Len(s) THEN <<>>
    ELSE <<[type |-> "section", text |-> Chunk(s, i)]>>
         \o BodyBlocksFrom(s, i + chunk_size)

BodyBlocks(s) == BodyBlocksFrom(s, 0)

Blocks(s, article_count) == HeaderBlocks(article_count) \o BodyBlocks(s)

----------------------------------------------------------------------------
(* main.py : the run of main() *)

MainEnvs ==
    [LLM_API_KEY : {NoneVal, SetVal}, LLM_API_URL : {NoneVal, SetVal},
     SLACK_WEBHOOK_URL : {NoneVal, SetVal}]

NoData == Json(FALSE, {}, <<>>)

InitCommon ==
    /\ results = Reply(<<>>)
    /\ fetched = <<>>
    /\ all_articles = <<>>
    /\ all_items = <<>>
    /\ seen_links = {}
    /\ news_text = <<>>
    /\ attempts = <<>>
    /\ data = NoData
    /\ summary = <<>>
    /\ payload = [sent |-> FALSE]
    /\ netCalls = <<>>
    /\ error = ""

InitMain ==
    /\ pc = "search"
    /\ env \in MainEnvs
    /\ keywords = KEYWORDS
    /\ kwIdx = 1
    /\ InitCommon

\* one turn of search_news's for loop: ddgs.news, then the date filter; an
\* exception of the call is printed and the loop goes on
SearchKeyword(reply) ==
    /\ pc = "search"
    /\ kwIdx <= Len(keywords)
    /\ results' = reply
    /\ netCalls' = Append(netCalls, Call("search", ~reply.raises))
    /\ fetched' = Append(fetched, reply.results)
    /\ all_articles' =
          IF reply.raises THEN all_articles
          ELSE all_articles \o ArticlesFrom(keywords[kwIdx], reply.results)
    /\ kwIdx' = kwIdx + 1
    /\ pc' = IF kwIdx = Len(keywords) THEN "collected" ELSE "search"
    /\ UNCHANGED <<env, keywords, all_items, seen_links, news_text, attempts,
                   data, summary, payload, error>>

\* main(): no article ends the run before the summarizer, else the text is built
BuildText ==
    /\ pc = "collected"
    /\ IF all_articles = <<>>
       THEN /\ pc' = "done_empty"
            /\ UNCHANGED news_text
       ELSE /\ pc' = "summarize"
            /\ news_text' = BuildNewsText(all_articles)
    /\ UNCHANGED <<env, keywords, kwIdx, results, fetched, all_articles, all_items,
                   seen_links, attempts, data, summary, payload, netCalls, error>>

AfterLlmMutant(response) == "send"

\* where main() goes after requests.post, raise_for_status and resp.json()
AfterLlm(response) == IF response.kind = "ok" THEN "send" ELSE "crashed"

LlmError(response) ==
    IF response.kind = "transport" THEN "RequestException"
    ELSE IF response.kind = "status" THEN "HTTPError"
    ELSE IF response.kind = "badjson" THEN "JSONDecodeError"
    ELSE ""

\* summarize_with_llm: the sentinel for an empty text, ValueError for a missing
\* key or endpoint, else one POST and the summary taken from the response
Summarize(response) ==
    /\ pc = "summarize"
    /\ IF news_text = <<>>
       THEN /\ summary' = NoNewsSentinel
            /\ pc' = "send"
            /\ UNCHANGED <<data, netCalls, error>>
       ELSE IF Falsy(env.LLM_API_KEY) \/ Falsy(env.LLM_API_URL)
       THEN /\ pc' = "crashed"
            /\ error' = "ValueError"
            /\ UNCHANGED <<data, summary, netCalls>>
       ELSE /\ netCalls' = Append(netCalls, Call("llm", response.kind = "ok"))
            /\ pc' = AfterLlm(response)
            /\ error' = LlmError(response)
            /\ data' = response.data
            /\ summary' = IF response.kind = "ok"
                          THEN ExtractSummary(response.data) ELSE summary
    /\ UNCHANGED <<env, keywords, kwIdx, results, fetched, all_articles, all_items,
                   seen_links, news_text, attempts, payload>>

\* send_to_slack: ValueError for a missing webhook, else one POST of the blocks
SendToSlack(postOk) ==
    /\ pc = "send"
    /\ IF Falsy(env.SLACK_WEBHOOK_URL)
       THEN /\ pc' = "crashed"
            /\ error' = "ValueError"
            /\ UNCHANGED <<payload, netCalls>>
       ELSE /\ payload' = [sent |-> TRUE,
                           blocks |-> Blocks(summary, Len(all_articles))]
            /\ netCalls' = Append(netCalls, Call("slack", postOk))
            /\ pc' = IF postOk THEN "done" ELSE "crashed"
            /\ error' = IF postOk THEN "" ELSE "HTTPError"
    /\ UNCHANGED <<env, keywords, kwIdx, results, fetched, all_articles, all_items,
                   seen_links, news_text, attempts, data, summary>>

NextMain ==
    \/ \E reply \in MainReplies(kwIdx) : SearchKeyword(reply)
    \/ BuildText
    \/ \E response \in MainResponses : Summarize(response)
    \/ \E postOk \in BOOLEAN : SendToSlack(postOk)

SpecMain == InitMain /\ [][NextMain]_vars

----------------------------------------------------------------------------
(* weekly_news.py : the keyword list, fetch_google_news_rss, the dedup loop *)

KwNames == <<"kakao", "naver", "toss", "coupang", "baemin">>

\* k.strip() of a segment: a blank segment strips to ""
Strip(seg) == IF seg = " " THEN "" ELSE seg

\* os.environ.get("NEWS_SEARCH_KEYWORD", ""), as its comma-separated segments
RawSegments(v) == IF v.present THEN v.segments ELSE <<"">>

\* raw.strip() is empty: a raw value with a comma never is
RawIsBlank(v) == Len(RawSegments(v)) = 1 /\ Strip(RawSegments(v)[1]) = ""

\* [k.strip() for k in raw.split(",") if k.strip()]
RECURSIVE ParseKeywords(_)
ParseKeywords(segs) ==
    IF segs = <<>> THEN <<>>
    ELSE (IF Strip(Head(segs)) # "" THEN <<Strip(Head(segs))>> ELSE <<>>)
         \o ParseKeywords(Tail(segs))

SegmentLists ==
    UNION {{[i \in 1..n |-> IF b[i] THEN KwNames[i] ELSE " "] : b \in [1..n -> BOOLEAN]} :
             n \in 1..MaxSegments}

RawValues ==
    {[present |-> FALSE, segments |-> <<"">>]}
    \cup {[present |-> TRUE, segments |-> segs] : segs \in SegmentLists}

WeeklyEnvs ==
    [NEWS_SEARCH_KEYWORD : RawValues, GEMINI_API_KEY : {NoneVal, SetVal},
     SLACK_WEBHOOK_URL : {NoneVal, SetVal}]

Entry(title, link) ==
    [title |-> title, link |-> link, summary |-> <<"desc">>, published |-> <<"date">>]

\* the items of feed.entries[:max_items]
FetchItems(entries) ==
    [i \in 1..Min(Len(entries), per_keyword) |->
        [title |-> entries[i].title, link |-> entries[i].link,
         description |-> entries[i].summary, published |-> entries[i].published]]

KeepItemMutant(item, seen) == item.link # <<>>

\* if link and link not in seen_links
KeepItem(item, seen) == item.link # <<>> /\ item.link \notin seen

\* for item in items: the state [all, seen] after the loop over items
RECURSIVE DedupLoop(_, _)
DedupLoop(items, st) ==
    IF items = <<>> THEN st
    ELSE DedupLoop(Tail(items),
            IF KeepItem(Head(items), st.seen)
            THEN [all |-> Append(st.all, Head(items)),
                  seen |-> st.seen \cup {Head(items).link}]
            ELSE st)

\* all_items[:25]
CapItems(items) == Prefix(items, VolumeCap)

\* a feed longer than max_items, of links only this keyword returns
OwnFeed(k) == [i \in 1..(per_keyword + 2) |-> Entry(<<k, i>>, <<k, i>>)]

\* a feed of links every keyword may return, one repeated, one empty
SharedFeed(k) ==
    << Entry(<<k, 1>>, <<0, 1>>), Entry(<<k, 2>>, <<>>),
       Entry(<<k, 3>>, <<0, 1>>), Entry(<<k, 4>>, <<0, 2>>) >>

\* the answers of feedparser.parse in a pipeline run: it raises, or returns a feed
WeeklyReplies(k) == {Raise, Reply(<<>>), Reply(OwnFeed(k)), Reply(SharedFeed(k))}

DedupLinks == {<<>>, <<1>>, <<2>>}

\* the answers of feedparser.parse in the dedup specification: any short feed
DedupReplies(k) ==
    UNION {{Reply([i \in 1..n |-> Entry(<<k, i>>, ls[i])]) : ls \in [1..n -> DedupLinks]} :
             n \in 0..MaxFeedLen}

----------------------------------------------------------------------------
(* weekly_news.py : summarize_with_gemini *)

Candidates == <<"gemini-2.0-flash", "gemini-1.5-flash", "gemini-pro">>

Lower(t) ==
    CASE t = "Not" -> "not"
      [] t = "Found" -> "found"
      [] t = "Model" -> "model"
      [] OTHER -> t

\* "404" in str(e) or "not found" in str(e).lower()
IsNotFound(msg) ==
    \/ \E i \in 1..Len(msg) : msg[i] = "404"
    \/ \E i \in 1..(Len(msg) - 1) : Lower(msg[i]) = "not" /\ Lower(msg[i + 1]) = "found"

ErrorMessages ==
    { <<"404", "model", "is", "not", "found">>,
      <<"Model", "Not", "Found">>,
      <<"quota", "exceeded">> }

Raised(msg) == [kind |-> "raise", msg |-> msg, text |-> <<>>]
Returned(text) == [kind |-> "return", msg |-> <<>>, text |-> text]

\* what model.generate_content does for candidate i: it raises, or returns a
\* response whose text is empty, or one with the candidate's summary
GeminiOutcomes(i) ==
    IF i > Len(Candidates) THEN {}
    ELSE {Raised(m) : m \in ErrorMessages}
         \cup {Returned(<<>>), Returned(<<"summary", "by", Candidates[i]>>)}

ContinuesMutant(outcome) == TRUE

\* the loop goes on to the next candidate: an empty response, or an exception
\* of the not-found class
Continues(outcome) ==
    IF outcome.kind = "return" THEN outcome.text = <<>>
    ELSE IsNotFound(outcome.msg)

\* message[:39000] + ("..." if len(message) > 39000 else "")
PlainText(message) ==
    Prefix(message, PlainTextLimit)
    \o (IF Len(message) > PlainTextLimit THEN <<"...">> ELSE <<>>)

----------------------------------------------------------------------------
(* weekly_news.py : the run of main() *)

InitWeekly ==
    /\ pc = "start"
    /\ env \in WeeklyEnvs
    /\ keywords = <<>>
    /\ kwIdx = 1
    /\ InitCommon

\* lines 97-104: SystemExit for a blank NEWS_SEARCH_KEYWORD, else the keyword list
ReadKeywords ==
    /\ pc = "start"
    /\ IF RawIsBlank(env.NEWS_SEARCH_KEYWORD)
       THEN /\ pc' = "crashed"
            /\ error' = "SystemExit"
            /\ UNCHANGED keywords
       ELSE /\ keywords' = ParseKeywords(RawSegments(env.NEWS_SEARCH_KEYWORD))
            /\ pc' = IF keywords' = <<>> THEN "merged" ELSE "fetch"
            /\ UNCHANGED error
    /\ UNCHANGED <<env, kwIdx, results, fetched, all_articles, all_items, seen_links,
                   news_text, attempts, data, summary, payload, netCalls>>

\* one turn of main's for loop: fetch_google_news_rss, then the dedup loop; an
\* exception of the fetch is not caught
FetchKeyword(reply) ==
    /\ pc = "fetch"
    /\ kwIdx <= Len(keywords)
    /\ results' = reply
    /\ netCalls' = Append(netCalls, Call("feed", ~reply.raises))
    /\ IF reply.raises
       THEN /\ pc' = "crashed"
            /\ error' = "Exception"
            /\ UNCHANGED <<fetched, all_items, seen_links, kwIdx>>
       ELSE LET items == FetchItems(reply.results)
                st == DedupLoop(items, [all |-> all_items, seen |-> seen_links])
            IN /\ fetched' = Append(fetched, items)
               /\ all_items' = st.all
               /\ seen_links' = st.seen
               /\ kwIdx' = kwIdx + 1
               /\ pc' = IF kwIdx = Len(keywords) THEN "merged" ELSE "fetch"
               /\ UNCHANGED error
    /\ UNCHANGED <<env, keywords, all_articles, news_text, attempts, data, summary,
                   payload>>

\* lines 119-124: no item ends the run, else the list is cut to 25
CapAndGo ==
    /\ pc = "merged"
    /\ IF all_items = <<>>
       THEN /\ pc' = "done_empty"
            /\ UNCHANGED all_items
       ELSE /\ pc' = "gemini_start"
            /\ all_items' = CapItems(all_items)
    /\ UNCHANGED <<env, keywords, kwIdx, results, fetched, all_articles, seen_links,
                   news_text, attempts, data, summary, payload, netCalls, error>>

\* summarize_with_gemini up to the loop: SystemExit for a missing GEMINI_API_KEY
GeminiBegin ==
    /\ pc = "gemini_start"
    /\ IF Falsy(env.GEMINI_API_KEY)
       THEN /\ pc' = "crashed"
            /\ error' = "SystemExit"
       ELSE /\ pc' = "gemini"
            /\ UNCHANGED error
    /\ UNCHANGED <<env, keywords, kwIdx, results, fetched, all_articles, all_items,
                   seen_links, news_text, attempts, data, summary, payload, netCalls>>

\* one turn of the loop over the candidate models
GeminiAttempt(outcome) ==
    LET i == Len(attempts) + 1
    IN /\ pc = "gemini"
       /\ i <= Len(Candidates)
       /\ attempts' = Append(attempts, [model |-> Candidates[i], outcome |-> outcome])
       /\ netCalls' = Append(netCalls, Call("gemini", outcome.kind = "return"))
       /\ IF outcome.kind = "return" /\ outcome.text # <<>>
          THEN /\ summary' = outcome.text
               /\ pc' = "send_plain"
               /\ UNCHANGED error
          ELSE IF Continues(outcome)
          THEN /\ summary' = IF i = Len(Candidates) THEN FailSentinel ELSE summary
               /\ pc' = IF i = Len(Candidates) THEN "send_plain" ELSE "gemini"
               /\ UNCHANGED error
          ELSE /\ pc' = "crashed"
               /\ error' = "Exception"
               /\ UNCHANGED summary
       /\ UNCHANGED <<env, keywords, kwIdx, results, fetched, all_articles, all_items,
                      seen_links, news_text, data, payload>>

\* weekly_news.send_to_slack: SystemExit for a missing webhook, else one POST
SendPlain(postOk) ==
    /\ pc = "send_plain"
    /\ IF Falsy(env.SLACK_WEBHOOK_URL)
       THEN /\ pc' = "crashed"
            /\ error' = "SystemExit"
            /\ UNCHANGED <<payload, netCalls>>
       ELSE /\ payload' = [sent |-> TRUE, text |-> PlainText(summary)]
            /\ netCalls' = Append(netCalls, Call("slack", postOk))
            /\ pc' = IF postOk THEN "done" ELSE "crashed"
            /\ error' = IF postOk THEN "" ELSE "HTTPError"
    /\ UNCHANGED <<env, keywords, kwIdx, results, fetched, all_articles, all_items,
                   seen_links, news_text, attempts, data, summary>>

NextWeekly ==
    \/ ReadKeywords
    \/ \E reply \in WeeklyReplies(kwIdx) : FetchKeyword(reply)
    \/ CapAndGo
    \/ GeminiBegin
    \/ \E outcome \in GeminiOutcomes(Len(attempts) + 1) : GeminiAttempt(outcome)
    \/ \E postOk \in BOOLEAN : SendPlain(postOk)

SpecWeekly == InitWeekly /\ [][NextWeekly]_vars

----------------------------------------------------------------------------
(* The date filter of search_news on any short provider reply: the first     *)
(* keyword gets the reply, the others get none.                              *)

AllSet(e) == \A k \in DOMAIN e : e[k] = SetVal

InitFilter == InitMain /\ AllSet(env)

NextFilter ==
    \E reply \in (IF kwIdx = 1 THEN FilterReplies ELSE {Reply(<<>>)}) :
        SearchKeyword(reply)

SpecFilter == InitFilter /\ [][NextFilter]_vars

----------------------------------------------------------------------------
(* The dedup loop of weekly_news.main on any short feeds.                    *)

InitDedup ==
    /\ InitWeekly
    /\ env.GEMINI_API_KEY = SetVal
    /\ env.SLACK_WEBHOOK_URL = SetVal
    /\ Len(RawSegments(env.NEWS_SEARCH_KEYWORD)) <= MaxDedupKeywords

NextDedup ==
    \/ ReadKeywords
    \/ \E reply \in DedupReplies(kwIdx) : FetchKeyword(reply)

SpecDedup == InitDedup /\ [][NextDedup]_vars

----------------------------------------------------------------------------
(* summarize_with_llm on every response shape: each keyword returns its own  *)
(* batch, the endpoint answers with any JSON body of the model.              *)

NextExtract ==
    \/ SearchKeyword(Reply(OwnBatch(kwIdx)))
    \/ BuildText
    \/ \E response \in ExtractResponses : Summarize(response)

SpecExtract == InitMain /\ [][NextExtract]_vars

----------------------------------------------------------------------------
(* send_to_slack on summaries around the multiples of chunk_size: the        *)
(* endpoint answers {"text": summary}.                                       *)

Alphabet == <<"a", "b", "c">>

\* a summary of length n: the characters depend on the position
SummaryText(n, seed) == [i \in 1..n |-> Alphabet[((i * seed) % Len(Alphabet)) + 1]]

SummaryLengths ==
    {n \in {c * chunk_size + d : c \in 0..MaxChunks, d \in (0 - MaxDelta)..MaxDelta} :
        n >= 0}

LongSummaries == {SummaryText(n, seed) : n \in SummaryLengths, seed \in {1, 2}}

SlackResponses == {HttpOk(JsonText(TRUE, {"text"}, <<>>, s)) : s \in LongSummaries}

NextSlack ==
    \/ SearchKeyword(Reply(OwnBatch(kwIdx)))
    \/ BuildText
    \/ \E response \in SlackResponses : Summarize(response)
    \/ \E postOk \in BOOLEAN : SendToSlack(postOk)

SpecSlack == InitMain /\ [][NextSlack]_vars

----------------------------------------------------------------------------
(* Properties *)

CallsOf(kind) == {i \in 1..Len(netCalls) : netCalls[i].kind = kind}

\* the list handed to the summarizer: main.py's numbered entries, and
\* weekly_news.py's all_items once summarize_with_gemini is entered
HandedUrls ==
    IF pc \in {"gemini_start", "gemini", "send_plain"} \/ attempts # <<>>
    THEN [i \in 1..Len(all_items) |-> all_items[i].link]
    ELSE [i \in 1..Len(news_text) |-> news_text[i].url]

\* C1: the article list handed to the summarizer holds no url twice, in either
\* pipeline
C1_UniqueUrls ==
    \A i, j \in 1..Len(HandedUrls) : i # j => HandedUrls[i] # HandedUrls[j]

\* the concatenation of the per-keyword lists, in keyword order
Concat == Flatten(fetched)

FirstIdx(link) ==
    CHOOSE i \in 1..Len(Concat) :
        /\ Concat[i].link = link
        /\ \A j \in 1..(i - 1) : Concat[j].link # link

\* C2: the merged list of weekly_news.main holds every url of the concatenated
\* per-keyword lists exactly once, each kept entry is the first occurrence of its
\* url with its field values, and the kept entries are in the order of their
\* first occurrences (an entry whose link is empty carries no url)
C2_DedupFirstWins ==
    /\ \A i \in 1..Len(Concat) :
          Concat[i].link # <<>> =>
             Cardinality({j \in 1..Len(all_items) : all_items[j].link = Concat[i].link}) = 1
    /\ \A j \in 1..Len(all_items) :
          /\ \E i \in 1..Len(Concat) : Concat[i].link = all_items[j].link
          /\ all_items[j] = Concat[FirstIdx(all_items[j].link)]
    /\ \A a, b \in 1..Len(all_items) :
          a < b => FirstIdx(all_items[a].link) < FirstIdx(all_items[b].link)

\* two keywords were fetched, a url of the first came again with the second, and
\* the merged list kept the first keyword's entry
C2_Witness ==
    /\ Len(fetched) = 2
    /\ \E i \in 1..Len(fetched[1]), j \in 1..Len(fetched[2]) :
          /\ fetched[1][i].link # <<>>
          /\ fetched[1][i].link = fetched[2][j].link
          /\ \E m \in 1..Len(all_items) : all_items[m] = fetched[1][i]
    /\ Len(all_items) >= 2

\* the places of the concatenation the dedup loop keeps: the first occurrence of
\* every non-empty link
KeptIdx ==
    {i \in 1..Len(Concat) :
        /\ Concat[i].link # <<>>
        /\ \A j \in 1..(i - 1) : Concat[j].link # Concat[i].link}

\* the n-th of them
NthKept(n) == CHOOSE i \in KeptIdx : Cardinality({m \in KeptIdx : m <= i}) = n

\* C3: the list handed to the summarizer has at most VolumeCap entries, in either
\* pipeline, and where the deduplicated list of weekly_news.main is longer it is
\* the first VolumeCap entries of that list, in order
C3_AtMostCap ==
    /\ Len(HandedUrls) <= VolumeCap
    /\ (pc \in {"gemini_start", "gemini", "send_plain"} \/ attempts # <<>>) =>
          /\ Len(all_items) = Min(VolumeCap, Cardinality(KeptIdx))
          /\ \A n \in 1..Len(all_items) : all_items[n] = Concat[NthKept(n)]

\* C4: a keyword whose search or feed call raises does not end the run: the run
\* is not left crashed by that call, and once collection is over every keyword
\* has been searched
C4_KeywordFailureDoesNotAbort ==
    /\ \A i \in CallsOf("search") \cup CallsOf("feed") :
          ~netCalls[i].ok => ~(pc = "crashed" /\ error = "Exception" /\ i = Len(netCalls))
    /\ pc \notin {"start", "search", "fetch"} /\ keywords # <<>> =>
          Cardinality(CallsOf("search") \cup CallsOf("feed")) = Len(keywords)

\* C5: in main.py's pipeline a failed summarization request ends the run, and the
\* webhook is posted to only after a summarization request that returned
C5_NoPostAfterFailedSummary ==
    /\ \A i \in CallsOf("llm") :
          ~netCalls[i].ok => (pc = "crashed" /\ CallsOf("slack") = {})
    /\ \A i \in CallsOf("slack") :
          \E j \in CallsOf("llm") : j < i /\ netCalls[j].ok

\* the summarization request failed
C5_Witness ==
    /\ \E i \in CallsOf("llm") : ~netCalls[i].ok
    /\ pc = "crashed"

\* C6: in main.py's pipeline, with a required environment value missing, the run
\* makes no network call
C6_NoCallWhenConfigMissing ==
    (Falsy(env.LLM_API_KEY) \/ Falsy(env.LLM_API_URL) \/ Falsy(env.SLACK_WEBHOOK_URL))
       => netCalls = <<>>

NotFoundError(o) == o.kind = "raise" /\ IsNotFound(o.msg)
OtherError(o) == o.kind = "raise" /\ ~IsNotFound(o.msg)
EmptyReturn(o) == o.kind = "return" /\ o.text = <<>>
Succeeded(o) == o.kind = "return" /\ o.text # <<>>

\* summarize_with_gemini has returned
ChainReturned == attempts # <<>> /\ pc # "gemini" /\ ~OtherError(attempts[Len(attempts)].outcome)

\* the parts of C7 that need no amendment: the fixed order, each candidate at most
\* once, any other error ends the chain at once, the result is the first success,
\* the sentinel when none succeeds, three calls for not-found, not-found, success
C7_Rest ==
    /\ Len(attempts) <= Len(Candidates)
    /\ \A i \in 1..Len(attempts) : attempts[i].model = Candidates[i]
    /\ \A i \in 1..Len(attempts) :
          OtherError(attempts[i].outcome) =>
             (i = Len(attempts) /\ pc = "crashed" /\ CallsOf("slack") = {})
    /\ \A i \in 1..Len(attempts) :
          Succeeded(attempts[i].outcome) =>
             (i = Len(attempts) /\ summary = attempts[i].outcome.text)
    /\ (ChainReturned /\ ~Succeeded(attempts[Len(attempts)].outcome)) =>
          (Len(attempts) = Len(Candidates) /\ summary = FailSentinel)
    /\ (/\ Len(attempts) >= 2
        /\ NotFoundError(attempts[1].outcome)
        /\ NotFoundError(attempts[2].outcome)
        /\ pc # "gemini") =>
          (Len(attempts) = 3 /\ Cardinality(CallsOf("gemini")) = 3)

\* C7 as claimed: a later candidate is attempted only when every earlier one
\* failed with an error of the not-found class
C7_Original ==
    /\ C7_Rest
    /\ \A i \in 1..Len(attempts) :
          \A j \in 1..(i - 1) : NotFoundError(attempts[j].outcome)

\* C7 as amended: a later candidate is attempted only when every earlier one
\* either failed with an error of the not-found class or returned an empty text
C7_FallbackChain ==
    /\ C7_Rest
    /\ \A i \in 1..Len(attempts) :
          \A j \in 1..(i - 1) :
             NotFoundError(attempts[j].outcome) \/ EmptyReturn(attempts[j].outcome)

\* the first two candidates were not found, the third succeeded, and its output
\* is the summary
C7_Witness ==
    /\ Len(attempts) = 3
    /\ NotFoundError(attempts[1].outcome)
    /\ NotFoundError(attempts[2].outcome)
    /\ Succeeded(attempts[3].outcome)
    /\ summary = <<"summary", "by", "gemini-pro">>
    /\ pc = "send_plain"

BodyOf(blocks) == SubSeq(blocks, 4, Len(blocks))

\* C8: the payload of main.py's send_to_slack holds, after the header, metadata
\* and divider blocks, ceil(L / 2900) body blocks, each of at most 2900
\* characters, whose texts concatenated in order are the summary
C8_Segments ==
    payload.sent =>
       LET body == BodyOf(payload.blocks)
       IN /\ Len(payload.blocks) >= 3
          /\ payload.blocks[1].type = "header"
          /\ payload.blocks[2].type = "section"
          /\ payload.blocks[3].type = "divider"
          /\ Len(body) * chunk_size >= Len(summary)
          /\ (Len(body) - 1) * chunk_size < Len(summary) \/ Len(body) = 0
          /\ \A j \in 1..Len(body) :
                body[j].type = "section" /\ Len(body[j].text) <= chunk_size
          /\ Flatten([j \in 1..Len(body) |-> body[j].text]) = summary

\* a summary longer than one chunk and no multiple of chunk_size was posted
C8_Witness ==
    /\ payload.sent
    /\ Len(summary) > chunk_size
    /\ Len(summary) % chunk_size # 0
    /\ Len(BodyOf(payload.blocks)) >= 2

\* the date of a result is missing or cannot be parsed
Unparsable(r) == r.date.kind # "iso"

\* C9: in main.py's search_news every result whose date is missing or cannot be
\* parsed is appended, and so is every result dated within the window: the
\* articles of a keyword are its results of those two kinds, in order
C9_FailOpen ==
    kwIdx > 1 =>
       LET rs == fetched[1]
           Kept(r) == Unparsable(r) \/ r.date.day >= cutoff
           kept == SelectSeq(rs, Kept)
       IN /\ Len(all_articles) = Len(kept)
          /\ \A i \in 1..Len(kept) :
                /\ all_articles[i].url = kept[i].url
                /\ all_articles[i].title = kept[i].title
                /\ all_articles[i].keyword = keywords[1]

\* a reply held a result with an unparsable date and one older than the window:
\* the first was appended, the second dropped
C9_Witness ==
    /\ kwIdx > 1
    /\ Len(fetched[1]) = 2
    /\ fetched[1][1].date.kind = "garbage"
    /\ fetched[1][2].date.kind = "iso" /\ fetched[1][2].date.day < cutoff
    /\ Len(all_articles) = 1
    /\ all_articles[1].url = fetched[1][1].url

NestedPresent(d) ==
    /\ "choices" \in d.keys
    /\ Len(d.choices) > 0
    /\ d.choices[1].hasMessage
    /\ d.choices[1].hasContent

\* C10 as claimed: the summary of a successful dict response is the nested
\* choices[0].message.content if present, else the top-level content, else
\* message, else text, and the rendering of the response only when none is there
C10_Original ==
    (pc = "send" /\ data.isDict) =>
       summary = IF NestedPresent(data) THEN data.choices[1].content
                 ELSE IF "content" \in data.keys THEN data.content
                 ELSE IF "message" \in data.keys THEN data.message
                 ELSE IF "text" \in data.keys THEN data.text
                 ELSE Str(data)

HasChoices(d) == "choices" \in d.keys /\ Len(d.choices) > 0

\* C10 as amended: with a non-empty choices list the summary is the nested
\* choices[0].message.content if present and the rendering of the whole response
\* if not, whatever the top-level fields; with no or an empty choices list it is
\* the top-level content, else message, else text, else the rendering; a response
\* that is no dict gives its rendering
C10_ShapeOrder ==
    pc = "send" =>
       /\ ~data.isDict => summary = Str(data)
       /\ (data.isDict /\ NestedPresent(data)) => summary = data.choices[1].content
       /\ (data.isDict /\ HasChoices(data) /\ ~NestedPresent(data)) => summary = Str(data)
       /\ (data.isDict /\ ~HasChoices(data)) =>
             /\ "content" \in data.keys => summary = data.content
             /\ ("content" \notin data.keys /\ "message" \in data.keys) =>
                   summary = data.message
             /\ ({"content", "message"} \cap data.keys = {} /\ "text" \in data.keys) =>
                   summary = data.text
             /\ {"content", "message", "text"} \cap data.keys = {} =>
                   summary = Str(data)

\* a response with a choice that has no content and with a top-level content:
\* the summary is the rendering of the response
C10_Witness ==
    /\ pc = "send"
    /\ data.isDict
    /\ HasChoices(data)
    /\ ~NestedPresent(data)
    /\ "content" \in data.keys
    /\ summary = Str(data)
    /\ summary # data.content

====
